---- MODULE Spec2Model ----
(***************************************************************************)
(* Dollar words (dollarwords.py): get_dollar_words keeps the words whose   *)
(* letters, valued a=1..z=26 and everything else 0, sum to 100;            *)
(* sort_by_length sorts a list in place by len(); the __main__ block       *)
(* strips the lines of a file, filters, sorts and prints them.             *)
(*                                                                         *)
(* Python values are records [type, val]: a str is the sequence of its     *)
(* characters, a tuple the sequence of its elements (an element k of a     *)
(* tuple is written as the one-character string of its digit), an int has  *)
(* no elements.  Lists and tuples passed as arguments live in the heap,    *)
(* a sequence of containers addressed by its index, so that two names for  *)
(* one list are told apart from two equal lists.                           *)
(***************************************************************************)
EXTENDS Integers, Sequences, FiniteSets, TLC

VARIABLES
    pc,            \* the line about to execute
    caller,        \* "none", "main" (lines 182-186) or "test" (a direct call, lines 143-179)
    heap,          \* the containers: heap[r] is the list or tuple with reference r
    words,         \* get_dollar_words: its parameter (a reference)
    wi,            \* position of the for loop of line 121
    word,          \* the loop variable of line 121
    li,            \* position of the for loop of line 124
    value,         \* the running value, lines 123-128
    dollar_words,  \* the list built by get_dollar_words (a reference, 0 before line 120)
    items,         \* sort_by_length: its parameter (a reference)
    sorted_words,  \* what sort_by_length returned (a reference, 0 before any return)
    ncalls,        \* how many calls of sort_by_length have returned
    output,        \* the characters written to standard output
    exc            \* the exception that ended the run, "none" otherwise

vars == <<pc, caller, heap, words, wi, word, li, value, dollar_words,
          items, sorted_words, ncalls, output, exc>>

-----------------------------------------------------------------------------
(* Bounds of the model *)

\* longest word of the exhaustive one-word inputs
MaxWordLen == 5

\* longest container of the list inputs
MaxWords == 3

\* how many times a test calls sort_by_length on the same list
MaxSortCalls == 2

-----------------------------------------------------------------------------
(* Python values *)

Str(s) == [type |-> "str", val |-> s]

Tuple(s) == [type |-> "tuple", val |-> s]

AnInt == [type |-> "int", val |-> <<>>]

None == [type |-> "NoneType", val |-> <<>>]

List(s) == [type |-> "list", val |-> s]

\* iter(o) and len(o) are defined for these types; for the others they raise TypeError
Sized(o) == o.type \in {"str", "tuple", "list"}

len(o) == Len(o.val)

Range(s) == {s[i] : i \in DOMAIN s}

\* c * n: the character c, n times
Repeat(c, n) == [i \in 1..n |-> c]

-----------------------------------------------------------------------------
(* get_dollar_words, lines 112-130 *)

\* string.lowercase
lowercase == <<"a", "b", "c", "d", "e", "f", "g", "h", "i", "j", "k", "l", "m",
               "n", "o", "p", "q", "r", "s", "t", "u", "v", "w", "x", "y", "z">>

\* range(26): the values start at 0
range_0_26 == [i \in 1..26 |-> i - 1]

\* range(1, 27)
range_1_27 == [i \in 1..26 |-> i]

\* line 119: dict(zip(string.lowercase, range(1, 27)))
letter_values ==
    [c \in Range(lowercase) |-> range_1_27[CHOOSE i \in DOMAIN lowercase : lowercase[i] = c]]

\* string.uppercase
uppercase == <<"A", "B", "C", "D", "E", "F", "G", "H", "I", "J", "K", "L", "M",
               "N", "O", "P", "Q", "R", "S", "T", "U", "V", "W", "X", "Y", "Z">>

\* letter_values.get(letter.lower(), 0): an upper case letter scores as its lower case letter
LetterValueFolded(letter) ==
    IF letter \in DOMAIN letter_values THEN letter_values[letter]
    ELSE IF \E i \in DOMAIN uppercase : uppercase[i] = letter
    THEN letter_values[lowercase[CHOOSE i \in DOMAIN uppercase : uppercase[i] = letter]]
    ELSE 0

\* line 125: letter_values.get(letter, 0)
LetterValue(letter) ==
    IF letter \in DOMAIN letter_values THEN letter_values[letter] ELSE 0

\* value = letter_values.get(letter, 0): assigned, not added
AssignLetter(v, letter) == LetterValue(letter)

\* line 125: value += letter_values.get(letter, 0)
AddLetter(v, letter) == v + LetterValue(letter)

\* no line 123: the value of the previous word is carried into the next
KeepValue(v) == v

\* line 123: value = 0, whatever the value was after the previous word
ResetValue(v) == 0

\* if value >= 100: the scan stops at 100 too
GiveUpAtHundred(v) == v >= 100

\* line 126: if value > 100
GiveUp(v) == v > 100

\* line 128: if value == 100
IsDollar(v) == v = 100

\* lines 124-127 over the letters a+1..b of the word, entered with v: the value they
\* leave and whether break left the loop; the letters are taken in their order, the
\* first half before the second, and none after a break
RECURSIVE ScanRange(_, _, _, _)
ScanRange(w, a, b, v) ==
    IF a = b THEN [value |-> v, broke |-> FALSE]
    ELSE IF b = a + 1
    THEN LET v2 == AddLetter(v, w.val[b])
         IN  [value |-> v2, broke |-> GiveUp(v2)]
    ELSE LET m == (a + b) \div 2
             first == ScanRange(w, a, m, v)
         IN  IF first.broke THEN first ELSE ScanRange(w, m, b, first.value)

\* lines 124-127 as a function: the value after the loop over word[i+1..], entered with v
ScanFrom(w, i, v) == ScanRange(w, i, len(w), v).value

\* lines 121-129 as a function: the list built from ws[i+1..], entered with value v and list out
RECURSIVE LoopFrom(_, _, _, _)
LoopFrom(ws, i, v, out) ==
    IF i = Len(ws) THEN out
    ELSE LET v2 == ScanFrom(ws[i + 1], 0, ResetValue(v))
         IN  LoopFrom(ws, i + 1, v2, IF IsDollar(v2) THEN Append(out, ws[i + 1]) ELSE out)

\* lines 120-130 as a function of the words, every one of them iterable
get_dollar_words(ws) == LoopFrom(ws, 0, 0, <<>>)

-----------------------------------------------------------------------------
(* sort_by_length, lines 133-140 *)

\* key=lambda w: -len(w): longest first
key_descending(w) == 0 - len(w)

\* line 139: key=lambda w: len(w)
key(w) == len(w)

\* an unstable sort: an item goes before the items with its key
InsertBeforeEqual(s, x) ==
    LET p == Cardinality({i \in DOMAIN s : len(s[i]) < len(x)})
    IN  SubSeq(s, 1, p) \o <<x>> \o SubSeq(s, p + 1, Len(s))

\* list.sort is stable: an item goes behind the items whose key is not larger
Insert(s, x) ==
    LET p == Cardinality({i \in DOMAIN s : key(s[i]) <= key(x)})
    IN  SubSeq(s, 1, p) \o <<x>> \o SubSeq(s, p + 1, Len(s))

\* line 139: the order items.sort(key=...) leaves the list in
RECURSIVE SortedByKey(_)
SortedByKey(s) ==
    IF s = <<>> THEN <<>>
    ELSE Insert(SortedByKey(SubSeq(s, 1, Len(s) - 1)), s[Len(s)])

\* the TypeError of len() is swallowed: only the missing sort of a tuple raises
SortRaisesSwallowed(c) == IF c.type # "list" THEN "AttributeError" ELSE "none"

\* line 139: the exception of items.sort(key=...), "none" when it returns:
\* only a list has sort; the key of every item is computed before any is moved
SortRaises(c) ==
    IF c.type # "list" THEN "AttributeError"
    ELSE IF \E i \in DOMAIN c.val : ~Sized(c.val[i]) THEN "TypeError"
    ELSE "none"

\* sorted(items, key=...): the order goes into a new list, the argument stays as it was
SortCopy(h, r) == Append(h, List(SortedByKey(h[r].val)))

\* line 139: the heap after items.sort(key=...) returned: the list r is reordered in place
SortInPlace(h, r) == [h EXCEPT ![r] = List(SortedByKey(h[r].val))]

\* line 140: return items
SortReturn(h, r) == r

-----------------------------------------------------------------------------
(* __main__, lines 182-186 *)

\* the characters str.strip() removes at both ends (the vertical tab, which no input holds, is left out)
whitespace == {" ", "\t", "\n", "\r", "\f"}

RECURSIVE lstrip(_)
lstrip(s) ==
    IF s # <<>> /\ s[1] \in whitespace THEN lstrip(Tail(s)) ELSE s

RECURSIVE rstrip(_)
rstrip(s) ==
    IF s # <<>> /\ s[Len(s)] \in whitespace THEN rstrip(SubSeq(s, 1, Len(s) - 1)) ELSE s

\* line 183: w.strip()
strip(w) == Str(lstrip(rstrip(w.val)))

\* line 183: readlines() gives every line of the file with its newline
readlines(file) == [i \in DOMAIN file |-> Str(file[i].val \o <<"\n">>)]

\* line 186: '\n'.join(sorted_words)
RECURSIVE join(_)
join(ws) ==
    IF ws = <<>> THEN <<>>
    ELSE IF Len(ws) = 1 THEN ws[1].val
    ELSE ws[1].val \o <<"\n">> \o join(Tail(ws))

\* line 186: print s writes s and a newline
print(s) == s \o <<"\n">>

-----------------------------------------------------------------------------
(* Inputs *)

\* the characters of the exhaustive one-word inputs: letters near 25, a space, an upper case letter
Alphabet == {"x", "y", "z", " ", "Y"}

RECURSIVE SeqsUpTo(_, _)
SeqsUpTo(S, n) ==
    IF n = 0 THEN {<<>>}
    ELSE LET shorter == SeqsUpTo(S, n - 1)
         IN  shorter \cup {Append(s, x) : s \in {t \in shorter : Len(t) = n - 1}, x \in S}

\* every word over Alphabet of at most MaxWordLen characters
Words == {Str(s) : s \in SeqsUpTo(Alphabet, MaxWordLen)}

\* lines 145-147 and 167: items of the tests' lists, and an item without a length
TestItems ==
    { Str(<<" ", " ">>), Str(<<"t", "o">>), Str(<<"y", "y", "y", "y">>),
      Str(<<"y", "y", "y", "a", "x">>), Tuple(<<"1", "2", "3">>), AnInt }

\* line 147: dollar = ['yyyy', 'yyyy', 'yyyax', 'yyy !y', 'b' * 50, 'a' * 100]
dollar ==
    << Str(<<"y", "y", "y", "y">>), Str(<<"y", "y", "y", "y">>),
       Str(<<"y", "y", "y", "a", "x">>), Str(<<"y", "y", "y", " ", "!", "y">>),
       Str(Repeat("b", 50)), Str(Repeat("a", 100)) >>

\* the arguments of the runs: a list of one word, a list or a tuple of test items,
\* and the list of line 147 in the order given and reversed (line 169)
Arguments ==
    {List(<<w>>) : w \in Words}
    \cup {List(s) : s \in SeqsUpTo(TestItems, MaxWords)}
    \cup {Tuple(s) : s \in SeqsUpTo(TestItems, MaxWords)}
    \cup {List(dollar), List([i \in DOMAIN dollar |-> dollar[Len(dollar) + 1 - i]])}

IsWord(o) == o.type = "str"

AllWords(c) == \A i \in DOMAIN c.val : IsWord(c.val[i])

-----------------------------------------------------------------------------
(* The runs *)

Init ==
    /\ pc = "start"
    /\ caller = "none"
    /\ heap \in {<<a>> : a \in Arguments}
    /\ words = 0
    /\ wi = 0
    /\ word = None
    /\ li = 0
    /\ value = 0
    /\ dollar_words = 0
    /\ items = 0
    /\ sorted_words = 0
    /\ ncalls = 0
    /\ output = <<>>
    /\ exc = "none"

\* line 183: words = [w.strip() for w in open(...).readlines()], then line 184 calls
\* get_dollar_words(words); heap[1] holds the lines of the file without their newlines
Main_ReadLines ==
    /\ pc = "start"
    /\ heap[1].type = "list" /\ AllWords(heap[1])
    /\ heap' = Append(heap, List([i \in DOMAIN heap[1].val |-> strip(readlines(heap[1].val)[i])]))
    /\ words' = Len(heap) + 1
    /\ caller' = "main"
    /\ pc' = "line_119"
    /\ UNCHANGED <<wi, word, li, value, dollar_words, items, sorted_words, ncalls, output, exc>>

\* lines 149-161: a test calls get_dollar_words on its argument
Test_GetDollarWords ==
    /\ pc = "start"
    /\ words' = 1
    /\ caller' = "test"
    /\ pc' = "line_119"
    /\ UNCHANGED <<heap, wi, word, li, value, dollar_words, items, sorted_words, ncalls, output, exc>>

\* lines 119-120: dollar_words = list()
gdw_Enter ==
    /\ pc = "line_119"
    /\ heap' = Append(heap, List(<<>>))
    /\ dollar_words' = Len(heap) + 1
    /\ wi' = 0
    /\ pc' = "line_121"
    /\ UNCHANGED <<caller, words, word, li, value, items, sorted_words, ncalls, output, exc>>

\* lines 121-123: for word in words: value = 0
gdw_ForWord ==
    /\ pc = "line_121"
    /\ IF wi < len(heap[words])
       THEN /\ wi' = wi + 1
            /\ word' = heap[words].val[wi + 1]
            /\ value' = ResetValue(value)
            /\ li' = 0
            /\ pc' = "line_124"
       ELSE /\ pc' = "line_130"
            /\ UNCHANGED <<wi, word, value, li>>
    /\ UNCHANGED <<caller, heap, words, dollar_words, items, sorted_words, ncalls, output, exc>>

\* lines 124-125: for letter in word: value += letter_values.get(letter, 0)
gdw_ForLetter ==
    /\ pc = "line_124"
    /\ IF ~Sized(word)
       THEN /\ exc' = "TypeError"
            /\ pc' = "raised"
            /\ UNCHANGED <<li, value>>
       ELSE IF li < len(word)
       THEN /\ li' = li + 1
            /\ value' = AddLetter(value, word.val[li + 1])
            /\ pc' = "line_126"
            /\ exc' = exc
       ELSE /\ pc' = "line_128"
            /\ UNCHANGED <<li, value, exc>>
    /\ UNCHANGED <<caller, heap, words, wi, word, dollar_words, items, sorted_words, ncalls, output>>

\* lines 126-127: if value > 100: break
gdw_IfOver ==
    /\ pc = "line_126"
    /\ pc' = IF GiveUp(value) THEN "line_128" ELSE "line_124"
    /\ UNCHANGED <<caller, heap, words, wi, word, li, value, dollar_words, items,
                   sorted_words, ncalls, output, exc>>

\* lines 128-129: if value == 100: dollar_words.append(word)
gdw_IfDollar ==
    /\ pc = "line_128"
    /\ heap' = IF IsDollar(value)
               THEN [heap EXCEPT ![dollar_words] = List(Append(@.val, word))]
               ELSE heap
    /\ pc' = "line_121"
    /\ UNCHANGED <<caller, words, wi, word, li, value, dollar_words, items,
                   sorted_words, ncalls, output, exc>>

\* line 130: return dollar_words
gdw_Return ==
    /\ pc = "line_130"
    /\ pc' = "line_184_ret"
    /\ UNCHANGED <<caller, heap, words, wi, word, li, value, dollar_words, items,
                   sorted_words, ncalls, output, exc>>

\* line 185: sorted_words = sort_by_length(dollar_words)
Main_SortByLength ==
    /\ pc = "line_184_ret"
    /\ caller = "main"
    /\ items' = dollar_words
    /\ pc' = "line_139"
    /\ UNCHANGED <<caller, heap, words, wi, word, li, value, dollar_words,
                   sorted_words, ncalls, output, exc>>

\* lines 173-179: a test calls sort_by_length on its argument, or again on what it returned
Test_SortByLength ==
    /\ \/ pc = "start" /\ items' = 1
       \/ pc = "line_185_ret" /\ caller = "test" /\ ncalls < MaxSortCalls /\ items' = sorted_words
    /\ caller' = "test"
    /\ pc' = "line_139"
    /\ UNCHANGED <<heap, words, wi, word, li, value, dollar_words, sorted_words, ncalls, output, exc>>

\* lines 139-140: items.sort(key=lambda w: len(w)); return items
sort_by_length ==
    /\ pc = "line_139"
    /\ IF SortRaises(heap[items]) # "none"
       THEN /\ exc' = SortRaises(heap[items])
            /\ pc' = "raised"
            /\ UNCHANGED <<heap, sorted_words, ncalls>>
       ELSE /\ heap' = SortInPlace(heap, items)
            /\ sorted_words' = SortReturn(heap', items)
            /\ ncalls' = ncalls + 1
            /\ pc' = "line_185_ret"
            /\ exc' = exc
    /\ UNCHANGED <<caller, words, wi, word, li, value, dollar_words, items, output>>

\* line 186: print '\n'.join(sorted_words)
Main_Print ==
    /\ pc = "line_185_ret"
    /\ caller = "main"
    /\ output' = output \o print(join(heap[sorted_words].val))
    /\ pc' = "done"
    /\ UNCHANGED <<caller, heap, words, wi, word, li, value, dollar_words, items,
                   sorted_words, ncalls, exc>>

Next ==
    \/ Main_ReadLines
    \/ Test_GetDollarWords
    \/ gdw_Enter
    \/ gdw_ForWord
    \/ gdw_ForLetter
    \/ gdw_IfOver
    \/ gdw_IfDollar
    \/ gdw_Return
    \/ Main_SortByLength
    \/ Test_SortByLength
    \/ sort_by_length
    \/ Main_Print

Spec == Init /\ [][Next]_vars

-----------------------------------------------------------------------------
(* The vocabulary of the properties *)

\* the position of a character in the alphabet, 0 for a character that is no lower case letter
AlphabetPosition(c) ==
    IF \E i \in 1..26 : lowercase[i] = c THEN CHOOSE i \in 1..26 : lowercase[i] = c ELSE 0

\* the sum of the alphabet positions of the characters a+1..b of the word w
RECURSIVE RangeValue(_, _, _)
RangeValue(w, a, b) ==
    IF a = b THEN 0
    ELSE IF b = a + 1 THEN AlphabetPosition(w.val[b])
    ELSE RangeValue(w, a, (a + b) \div 2) + RangeValue(w, (a + b) \div 2, b)

\* the letter value of the first n characters of the word w
PrefixValue(w, n) == RangeValue(w, 0, n)

\* the total letter value of the word w
TotalValue(w) == PrefixValue(w, len(w))

\* the dollar words of a sequence of words, in their order
DollarWordsOf(ws) == SelectSeq(ws, LAMBDA w : TotalValue(w) = 100)

Count(s, x) == Cardinality({i \in DOMAIN s : s[i] = x})

\* s and t hold the same items, each as many times
IsPermutation(s, t) ==
    /\ Len(s) = Len(t)
    /\ \A x \in Range(s) \cup Range(t) : Count(s, x) = Count(t, x)

\* the lengths of the items of s never decrease
LengthOrdered(s) == \A i \in 1..(Len(s) - 1) : Len(s[i].val) <= Len(s[i + 1].val)

\* the word w without its character at position i
DeleteAt(w, i) == Str(SubSeq(w.val, 1, i - 1) \o SubSeq(w.val, i + 1, len(w)))

\* the lines of a text in which a newline ends every line
RECURSIVE SplitLines(_)
SplitLines(s) ==
    IF s = <<>> THEN <<>>
    ELSE IF \E n \in DOMAIN s : s[n] = "\n"
    THEN LET n == CHOOSE n \in DOMAIN s : s[n] = "\n" /\ \A m \in 1..(n - 1) : s[m] # "\n"
         IN  <<Str(SubSeq(s, 1, n - 1))>> \o SplitLines(SubSeq(s, n + 1, Len(s)))
    ELSE <<Str(s)>>

\* get_dollar_words has returned to its caller
Returned == pc = "line_184_ret"

\* the step in which items.sort returns and sort_by_length returns items
SortStep == pc = "line_139" /\ pc' = "line_185_ret"

\* a step of get_dollar_words
InGetDollarWords == pc \in {"line_119", "line_121", "line_124", "line_126", "line_128", "line_130"}

-----------------------------------------------------------------------------
(* C1 *)

\* C1: when get_dollar_words returns, the list it built is the subsequence of its
\* argument made of the words whose total letter value is 100: same order, same
\* multiplicity, nothing else.
C1_ExactSubsequence ==
    (Returned /\ AllWords(heap[words]))
        => heap[dollar_words].val = DollarWordsOf(heap[words].val)

\* a dollar word kept twice from an argument that holds another item too
C1_Witness ==
    /\ Returned
    /\ AllWords(heap[words])
    /\ Len(heap[words].val) > Len(heap[dollar_words].val)
    /\ \E i, j \in DOMAIN heap[dollar_words].val :
          i < j /\ heap[dollar_words].val[i] = heap[dollar_words].val[j]

-----------------------------------------------------------------------------
(* C2 *)

\* C2: the list sort_by_length returns is a permutation of the list it was given
\* and the lengths of its items never decrease.
C2_ValidSort ==
    [][SortStep =>
          /\ IsPermutation(heap'[sorted_words'].val, heap[items].val)
          /\ LengthOrdered(heap'[sorted_words'].val)]_vars

\* main sorted dollar words that get_dollar_words had found in another order
C2_Witness ==
    /\ pc = "line_185_ret"
    /\ caller = "main"
    /\ heap[sorted_words].val # DollarWordsOf(heap[words].val)
    /\ \E i, j \in DOMAIN heap[sorted_words].val :
          i < j /\ heap[sorted_words].val[i] = heap[sorted_words].val[j]

-----------------------------------------------------------------------------
(* C3 *)

\* the lines of the file after line 183 stripped them
StrippedLines == [i \in DOMAIN heap[1].val |-> strip(readlines(heap[1].val)[i])]

\* C3: when main has printed, the lines of its output are the stripped lines of
\* the file whose letter value is 100, each as often as in the file, by
\* non-decreasing length; for the file of line 147 the lengths are 4,4,5,6,50,100.
C3_WholeRun ==
    pc = "done" =>
        LET out == SplitLines(output)
        IN  /\ IsPermutation(out, DollarWordsOf(StrippedLines))
            /\ LengthOrdered(out)
            /\ heap[1].val = dollar =>
                   [i \in DOMAIN out |-> Len(out[i].val)] = <<4, 4, 5, 6, 50, 100>>

\* what holds of every run: the same, for a file with a dollar word in it; a file
\* without one makes main print one empty line
C3_WholeRunNonEmpty ==
    pc = "done" =>
        LET out == SplitLines(output)
        IN  /\ DollarWordsOf(StrippedLines) # <<>> => 
                   IsPermutation(out, DollarWordsOf(StrippedLines)) /\ LengthOrdered(out)
            /\ DollarWordsOf(StrippedLines) = <<>> => output = <<"\n">>
            /\ heap[1].val = dollar =>
                   [i \in DOMAIN out |-> Len(out[i].val)] = <<4, 4, 5, 6, 50, 100>>

-----------------------------------------------------------------------------
(* C4 *)

\* C4: the list get_dollar_words built from A ++ B is the list it builds from A
\* followed by the list it builds from B, whatever the split of its argument;
\* the argument twice, or three times, gives the list twice, or three times.
C4_Concatenation ==
    (Returned /\ AllWords(heap[words])) =>
        LET L == heap[words].val
            D == heap[dollar_words].val
        IN  /\ \A k \in 0..Len(L) :
                  D = get_dollar_words(SubSeq(L, 1, k)) \o get_dollar_words(SubSeq(L, k + 1, Len(L)))
            /\ get_dollar_words(L \o L) = D \o D
            /\ get_dollar_words(L \o L \o L) = D \o D \o D

\* a dollar word was kept, and a word that is none came after it
C4_Witness ==
    /\ Returned
    /\ AllWords(heap[words])
    /\ heap[dollar_words].val # <<>>
    /\ Len(heap[words].val) >= 2
    /\ TotalValue(heap[words].val[1]) = 100
    /\ TotalValue(heap[words].val[2]) # 100

-----------------------------------------------------------------------------
(* C5 *)

\* the word w is kept by get_dollar_words
Kept(w) == get_dollar_words(<<w>>) = <<w>>

NoLowercase(w) == \A i \in DOMAIN w.val : w.val[i] \notin Range(lowercase)

\* C5: no character makes get_dollar_words fail; a word is kept exactly when the
\* word without one of its characters outside a-z is kept; the empty argument
\* gives the empty list, and a word without a lower case letter is never kept.
C5_OtherCharactersScoreZero ==
    /\ (InGetDollarWords /\ words # 0 /\ AllWords(heap[words])) => exc = "none"
    /\ (pc = "raised" /\ items = 0) => ~AllWords(heap[words])
    /\ (pc = "line_128" /\ IsWord(word)) =>
          /\ \A i \in DOMAIN word.val :
                word.val[i] \notin Range(lowercase) => (IsDollar(value) <=> Kept(DeleteAt(word, i)))
          /\ NoLowercase(word) => ~IsDollar(value)
    /\ (Returned /\ AllWords(heap[words])) =>
          /\ heap[words].val = <<>> => heap[dollar_words].val = <<>>
          /\ \A i \in DOMAIN heap[dollar_words].val : ~NoLowercase(heap[dollar_words].val[i])

\* a word with an upper case letter between its lower case letters is about to be kept
C5_Witness ==
    /\ pc = "line_128"
    /\ IsWord(word)
    /\ IsDollar(value)
    /\ \E i \in DOMAIN word.val : 1 < i /\ i < len(word) /\ word.val[i] = "Y"

-----------------------------------------------------------------------------
(* C6 *)

AllSized(c) == \A i \in DOMAIN c.val : Sized(c.val[i])

\* C6 as stated: sort_by_length fails for no sequence of items that have a
\* length, and when it fails it is with a TypeError for an item without one.
C6_OnlyTypeError ==
    (pc = "raised" /\ items # 0) => (exc = "TypeError" /\ ~AllSized(heap[items]))

\* C6: sort_by_length returns for every list of items that have a length (the
\* empty list comes back empty); it raises TypeError for a list with an item
\* without a length and AttributeError for a tuple, leaves its argument as it
\* was, and the caller takes no further step.
C6_Failures ==
    /\ [][pc = "line_139" =>
            /\ (heap[items].type = "list" /\ AllSized(heap[items])) =>
                   /\ pc' = "line_185_ret" /\ exc' = "none"
                   /\ heap[items].val = <<>> => heap'[sorted_words'].val = <<>>
            /\ (heap[items].type = "list" /\ ~AllSized(heap[items])) =>
                   pc' = "raised" /\ exc' = "TypeError" /\ heap' = heap
            /\ heap[items].type # "list" =>
                   pc' = "raised" /\ exc' = "AttributeError" /\ heap' = heap]_vars
    /\ [][pc # "raised"]_vars

\* sort_by_length raised for a list in which an item with a length precedes one without
C6_Witness ==
    /\ pc = "raised"
    /\ items # 0
    /\ exc = "TypeError"
    /\ Len(heap[items].val) >= 2
    /\ Sized(heap[items].val[1])

\* sort_by_length raised for a tuple of items that all have a length
C6_TupleWitness ==
    /\ pc = "raised"
    /\ items # 0
    /\ exc = "AttributeError"
    /\ AllSized(heap[items])

-----------------------------------------------------------------------------
(* C7 *)

\* C7: sort_by_length leaves a list whose lengths never decrease exactly as it
\* is, and so does a second call on the list a first call returned.
C7_Idempotent ==
    [][SortStep =>
          /\ LengthOrdered(heap[items].val) => heap'[sorted_words'].val = heap[items].val
          /\ (ncalls >= 1 /\ items = sorted_words) => heap'[sorted_words'].val = heap[items].val]_vars

\* a second call returned a list in which two different items have the same length
C7_Witness ==
    /\ pc = "line_185_ret"
    /\ ncalls = 2
    /\ \E i \in 1..(Len(heap[sorted_words].val) - 1) :
          /\ heap[sorted_words].val[i] # heap[sorted_words].val[i + 1]
          /\ len(heap[sorted_words].val[i]) = len(heap[sorted_words].val[i + 1])

-----------------------------------------------------------------------------
(* C8 *)

\* the step of line 127: break
BreakStep == pc = "line_126" /\ pc' = "line_128"

\* C8: while a word is scanned the running value is the letter value of the
\* characters scanned so far and no step lowers it; the scan is left by break
\* only with a value above 100, of a word whose total value is above 100, which
\* is not kept; a word is kept exactly when its total value is 100.
C8_EarlyExit ==
    /\ []((pc \in {"line_124", "line_126", "line_128"} /\ IsWord(word))
             => value = PrefixValue(word, li))
    /\ []((pc = "line_128" /\ IsWord(word))
             => (IsDollar(value) <=> TotalValue(word) = 100))
    /\ [][(pc = "line_124" /\ pc' = "line_126") => value' >= value]_vars
    /\ [][(BreakStep /\ IsWord(word)) => (value > 100 /\ TotalValue(word) > 100)]_vars
    /\ [][(pc = "line_128" /\ value > 100) => heap' = heap]_vars

\* the scan of a word was left before its last character
C8_Witness ==
    /\ pc = "line_128"
    /\ IsWord(word)
    /\ li < len(word)

-----------------------------------------------------------------------------
(* C9 *)

\* the step of lines 128-129 appends the word
Appends == heap'[dollar_words].val = Append(heap[dollar_words].val, word)

\* C9: a running value of 100 never ends the scan; a word whose value is 100
\* after j characters, j before its end, is scanned to its end or until the
\* value is above 100, and is kept exactly when every character behind j scores 0.
C9_NoStopAtHundred ==
    /\ [][(pc = "line_126" /\ value = 100) => (pc' = "line_124" /\ li' = li)]_vars
    /\ [][(pc = "line_128" /\ IsWord(word)) =>
            \A j \in 0..(len(word) - 1) :
                PrefixValue(word, j) = 100 =>
                    /\ li = len(word) \/ value > 100
                    /\ Appends <=> \A k \in (j + 1)..len(word) : AlphabetPosition(word.val[k]) = 0
                    /\ ~Appends => heap' = heap]_vars

\* a word is kept whose value was 100 before its last character
C9_Witness ==
    /\ pc = "line_121"
    /\ wi >= 1
    /\ IsWord(word)
    /\ \E j \in 0..(len(word) - 1) : PrefixValue(word, j) = 100
    /\ heap[dollar_words].val # <<>>
    /\ heap[dollar_words].val[Len(heap[dollar_words].val)] = word

-----------------------------------------------------------------------------
(* C10 *)

\* C10: sort_by_length returns the reference it was given, allocates nothing and
\* changes no other list; the list behind that reference then holds its former
\* items by non-decreasing length.  get_dollar_words builds a list that did not
\* exist when it was called and never changes the container it was given.
C10_InPlace ==
    /\ [][SortStep =>
            /\ sorted_words' = items
            /\ DOMAIN heap' = DOMAIN heap
            /\ \A r \in DOMAIN heap : r # items => heap'[r] = heap[r]
            /\ LengthOrdered(heap'[items].val)
            /\ IsPermutation(heap'[items].val, heap[items].val)]_vars
    /\ [][pc = "line_119" =>
            dollar_words' \notin DOMAIN heap /\ heap'[dollar_words'] = List(<<>>)]_vars
    /\ [][InGetDollarWords => heap'[words] = heap[words]]_vars
    /\ [](Returned => dollar_words # words)

\* main's dollar_words, which sort_by_length returned, is no longer in the order
\* in which get_dollar_words had built it
C10_Witness ==
    /\ pc = "line_185_ret"
    /\ caller = "main"
    /\ sorted_words = dollar_words
    /\ heap[dollar_words].val # get_dollar_words(heap[words].val)

====
